---------------------------- MODULE Spec2Model ----------------------------
(***************************************************************************)
(* A model of the V3 LP hedging calculator (src/calculator.js) and of its  *)
(* offline cache (src/sw.js).                                              *)
(*                                                                         *)
(* JavaScript numbers are modelled as exact rationals extended with the    *)
(* IEEE-754 special values NaN, +Infinity and -Infinity:                   *)
(*     [k |-> "fin", n |-> numerator, d |-> denominator > 0]  (reduced)    *)
(*     [k |-> "inf", n |-> 1 or -1, d |-> 1]                               *)
(*     [k |-> "nan", n |-> 0, d |-> 1]                                     *)
(* The rounding of +, -, * and / is not modelled (the statements checked   *)
(* here are the ones of real arithmetic); zero is the positive zero.       *)
(* Math.sqrt is exact on the squares of rationals, as it is in IEEE-754    *)
(* for the values used here, and rounded to two decimals elsewhere.        *)
(***************************************************************************)
EXTENDS Integers, Sequences, FiniteSets, TLC

---------------------------------------------------------------------------
(* Bounds of the model. *)

\* prices are drawn from the squares of 0..MaxRoot (and one negative value)
MaxRoot == 4

\* deposits are drawn from DepositStep * (0..MaxDepositSteps)
MaxDepositSteps == 2

---------------------------------------------------------------------------
(* JavaScript numbers. *)

RECURSIVE GCD(_, _)
GCD(a, b) == IF b = 0 THEN a ELSE GCD(b, a % b)

AbsInt(a) == IF a < 0 THEN -a ELSE a

NaN == [k |-> "nan", n |-> 0, d |-> 1]

PInf == [k |-> "inf", n |-> 1, d |-> 1]

NInf == [k |-> "inf", n |-> -1, d |-> 1]

\* the rational n/d (d # 0), reduced, with a positive denominator
Fin(n, d) ==
    LET g == GCD(AbsInt(n), AbsInt(d))
        s == IF d < 0 THEN -1 ELSE 1
    IN  [k |-> "fin", n |-> s * (n \div g), d |-> s * (d \div g)]

Num(i) == [k |-> "fin", n |-> i, d |-> 1]

IsNaN(a) == a.k = "nan"

IsFinite(a) == a.k = "fin"

\* -1, 0 or 1; not used on NaN
Sign(a) == IF a.n < 0 THEN -1 ELSE IF a.n > 0 THEN 1 ELSE 0

Neg(a) == [a EXCEPT !.n = -a.n]

\* a + b
Add(a, b) ==
    IF IsNaN(a) \/ IsNaN(b) THEN NaN
    ELSE IF a.k = "inf" /\ b.k = "inf" THEN (IF a.n = b.n THEN a ELSE NaN)
    ELSE IF a.k = "inf" THEN a
    ELSE IF b.k = "inf" THEN b
    ELSE LET g == GCD(a.d, b.d)
         IN  Fin(a.n * (b.d \div g) + b.n * (a.d \div g), (a.d \div g) * b.d)

\* a - b
Sub(a, b) == Add(a, Neg(b))

\* a * b
Mul(a, b) ==
    IF IsNaN(a) \/ IsNaN(b) THEN NaN
    ELSE IF a.k = "inf" \/ b.k = "inf"
         THEN (IF Sign(a) * Sign(b) = 0 THEN NaN
               ELSE IF Sign(a) * Sign(b) > 0 THEN PInf ELSE NInf)
    ELSE LET g1 == GCD(AbsInt(a.n), b.d)
             g2 == GCD(AbsInt(b.n), a.d)
         IN  Fin((a.n \div g1) * (b.n \div g2), (a.d \div g2) * (b.d \div g1))

\* a / b
Div(a, b) ==
    IF IsNaN(a) \/ IsNaN(b) THEN NaN
    ELSE IF a.k = "inf"
         THEN (IF b.k = "inf" THEN NaN
               ELSE IF Sign(b) < 0 THEN Neg(a) ELSE a)
    ELSE IF b.k = "inf" THEN Num(0)
    ELSE IF b.n = 0
         THEN (IF a.n = 0 THEN NaN ELSE IF a.n > 0 THEN PInf ELSE NInf)
    ELSE Mul(a, Fin(b.d, b.n))

\* a < b: false as soon as one side is NaN
Lt(a, b) ==
    IF IsNaN(a) \/ IsNaN(b) THEN FALSE
    ELSE IF a.k = "inf" THEN a.n < 0 /\ ~(b.k = "inf" /\ b.n < 0)
    ELSE IF b.k = "inf" THEN b.n > 0
    ELSE a.n * b.d < b.n * a.d

\* a == b on numbers (NaN equals nothing)
Eq(a, b) == ~IsNaN(a) /\ ~IsNaN(b) /\ a = b

\* a <= b
Le(a, b) == Lt(a, b) \/ Eq(a, b)

\* a > b
Gt(a, b) == Lt(b, a)

\* a >= b
Ge(a, b) == Le(b, a)

\* Math.max(a, b)
MathMax(a, b) == IF IsNaN(a) \/ IsNaN(b) THEN NaN ELSE IF Lt(a, b) THEN b ELSE a

\* Math.min(a, b)
MathMin(a, b) == IF IsNaN(a) \/ IsNaN(b) THEN NaN ELSE IF Lt(b, a) THEN b ELSE a

\* Math.abs(a)
MathAbs(a) == IF a.n < 0 THEN Neg(a) ELSE a

\* the largest r in lo..hi with r * r <= x, given lo * lo <= x < (hi + 1) * (hi + 1)
RECURSIVE ISqrtBetween(_, _, _)
ISqrtBetween(x, lo, hi) ==
    IF lo = hi THEN lo
    ELSE LET mid == (lo + hi + 1) \div 2
         IN  IF mid * mid <= x
             THEN ISqrtBetween(x, mid, hi)
             ELSE ISqrtBetween(x, lo, mid - 1)

\* the integer square root of x, for 0 <= x < 2^30
ISqrt(x) == ISqrtBetween(x, 0, IF x < 32767 THEN x ELSE 32767)

\* Math.sqrt(a): exact on the square of a rational, else rounded down to a
\* multiple of 1/100
MathSqrt(a) ==
    IF IsNaN(a) THEN NaN
    ELSE IF a.k = "inf" THEN (IF a.n > 0 THEN PInf ELSE NaN)
    ELSE IF a.n < 0 THEN NaN
    ELSE LET rn == ISqrt(a.n)
             rd == ISqrt(a.d)
         IN  IF rn * rn = a.n /\ rd * rd = a.d
             THEN Fin(rn, rd)
             ELSE Fin(ISqrt((a.n * 10000) \div a.d), 100)

---------------------------------------------------------------------------
(* UniswapV3Calculator. *)

\* toSqrtPrice(price)
toSqrtPrice(price) == MathSqrt(price)

\* the range test of calculateLiquidity: true when it throws
entryOutOfRange(entryPrice, lowerRange, upperRange) ==
    Lt(entryPrice, lowerRange) \/ Gt(entryPrice, upperRange)

\* the denominator with sqrtP counted once: sqrtP - entryPrice / sqrtPb - sqrtPa
liquidityDenominatorSingle(entryPrice, lowerRange, upperRange) ==
    LET sqrtPa == MathSqrt(lowerRange)
        sqrtPb == MathSqrt(upperRange)
        sqrtP  == MathSqrt(entryPrice)
    IN  Sub(Sub(sqrtP, Div(entryPrice, sqrtPb)), sqrtPa)

\* const denominator = 2 * sqrtP - entryPrice / sqrtPb - sqrtPa
liquidityDenominator(entryPrice, lowerRange, upperRange) ==
    LET sqrtPa == toSqrtPrice(lowerRange)
        sqrtPb == toSqrtPrice(upperRange)
        sqrtP  == toSqrtPrice(entryPrice)
    IN  Sub(Sub(Mul(Num(2), sqrtP), Div(entryPrice, sqrtPb)), sqrtPa)

\* calculateLiquidity: [threw |-> TRUE] for the thrown Error, else the value
calculateLiquidity(entryPrice, lpAmount, lowerRange, upperRange) ==
    IF entryOutOfRange(entryPrice, lowerRange, upperRange)
    THEN [threw |-> TRUE, value |-> NaN]
    ELSE [threw |-> FALSE,
          value |-> Div(lpAmount,
                        liquidityDenominator(entryPrice, lowerRange, upperRange))]

\* calculateTokenDistribution without the two out-of-range branches
calculateTokenDistributionUnbranched(currentPrice, liquidity, lowerRange, upperRange) ==
    LET sqrtPa == MathSqrt(lowerRange)
        sqrtPb == MathSqrt(upperRange)
        sqrtP  == MathSqrt(currentPrice)
        tokenAmount == Mul(liquidity, Sub(Div(Num(1), sqrtP), Div(Num(1), sqrtPb)))
        usdAmount == Mul(liquidity, Sub(sqrtP, sqrtPa))
    IN  [tokenAmount |-> MathMax(Num(0), tokenAmount),
         usdAmount   |-> MathMax(Num(0), usdAmount),
         totalValue  |-> Add(Mul(tokenAmount, currentPrice), usdAmount)]

\* calculateTokenDistribution
calculateTokenDistribution(currentPrice, liquidity, lowerRange, upperRange) ==
    LET sqrtPa == toSqrtPrice(lowerRange)
        sqrtPb == toSqrtPrice(upperRange)
        sqrtP  == toSqrtPrice(currentPrice)
        tokenAmount ==
            IF Le(currentPrice, lowerRange)
            THEN Mul(liquidity, Sub(Div(Num(1), sqrtPa), Div(Num(1), sqrtPb)))
            ELSE IF Ge(currentPrice, upperRange)
            THEN Num(0)
            ELSE Mul(liquidity, Sub(Div(Num(1), sqrtP), Div(Num(1), sqrtPb)))
        usdAmount ==
            IF Le(currentPrice, lowerRange)
            THEN Num(0)
            ELSE IF Ge(currentPrice, upperRange)
            THEN Mul(liquidity, Sub(sqrtPb, sqrtPa))
            ELSE Mul(liquidity, Sub(sqrtP, sqrtPa))
        totalValue == Add(Mul(tokenAmount, currentPrice), usdAmount)
    IN  [tokenAmount |-> MathMax(Num(0), tokenAmount),
         usdAmount   |-> MathMax(Num(0), usdAmount),
         totalValue  |-> totalValue]

\* the object returned by the catch block of calculateLPPosition
lpPositionDefault ==
    [tokenAmount        |-> Num(0),
     usdAmount          |-> Num(0),
     totalValue         |-> Num(0),
     impermanentLoss    |-> Num(0),
     hodlValue          |-> Fin(10000, 1),
     liquidity          |-> Num(0),
     initialTokenAmount |-> Num(0),
     initialUsdAmount   |-> Num(0),
     initialTotalValue  |-> Fin(10000, 1)]

\* steps 2 to 6 of calculateLPPosition, once the liquidity is known
lpPositionWith(liquidity, currentPrice, entryPrice, lowerRange, upperRange) ==
    LET initialDistribution ==
            calculateTokenDistribution(entryPrice, liquidity, lowerRange, upperRange)
        currentDistribution ==
            calculateTokenDistribution(currentPrice, liquidity, lowerRange, upperRange)
        initialTokenValue == Mul(initialDistribution.tokenAmount, entryPrice)
        initialTotalValue == Add(initialTokenValue, initialDistribution.usdAmount)
        hodlValue == Add(Mul(initialDistribution.tokenAmount, currentPrice),
                         initialDistribution.usdAmount)
        impermanentLoss ==
            IF Le(currentPrice, lowerRange)
            THEN Mul(Sub(currentDistribution.tokenAmount,
                         Div(hodlValue, currentPrice)), currentPrice)
            ELSE IF Ge(currentPrice, upperRange)
            THEN Sub(currentDistribution.usdAmount, hodlValue)
            ELSE Sub(currentDistribution.totalValue, hodlValue)
    IN  [tokenAmount        |-> currentDistribution.tokenAmount,
         usdAmount          |-> currentDistribution.usdAmount,
         totalValue         |-> currentDistribution.totalValue,
         impermanentLoss    |-> impermanentLoss,
         hodlValue          |-> hodlValue,
         liquidity          |-> liquidity,
         initialTokenAmount |-> initialDistribution.tokenAmount,
         initialUsdAmount   |-> initialDistribution.usdAmount,
         initialTotalValue  |-> initialTotalValue]

\* calculateLPPosition with the liquidity derived again at the observation price
calculateLPPositionRederiving(currentPrice, entryPrice, lpAmount, lowerRange, upperRange) ==
    LET liq == calculateLiquidity(currentPrice, lpAmount, lowerRange, upperRange)
    IN  IF liq.threw
        THEN lpPositionDefault
        ELSE lpPositionWith(liq.value, currentPrice, entryPrice, lowerRange, upperRange)

\* calculateLPPosition: step 1 and the catch block around the whole
calculateLPPosition(currentPrice, entryPrice, lpAmount, lowerRange, upperRange) ==
    LET liq == calculateLiquidity(entryPrice, lpAmount, lowerRange, upperRange)
    IN  IF liq.threw
        THEN lpPositionDefault
        ELSE lpPositionWith(liq.value, currentPrice, entryPrice, lowerRange, upperRange)

\* calculateShortPnL
calculateShortPnL(currentPrice, entryPrice, shortSize) ==
    IF Le(shortSize, Num(0))
    THEN Num(0)
    ELSE Mul(shortSize, Sub(Num(1), Div(currentPrice, entryPrice)))

\* const optimalShort = delta * entryPrice (before the clamp); not used on a throw
optimalShortUnclamped(entryPrice, lpAmount, lowerRange, upperRange) ==
    LET liquidity == calculateLiquidity(entryPrice, lpAmount, lowerRange, upperRange).value
        tokenDistribution ==
            calculateTokenDistribution(entryPrice, liquidity, lowerRange, upperRange)
        delta == tokenDistribution.tokenAmount
    IN  Mul(delta, entryPrice)

\* calculateOptimalShortSize: its own try/catch leaves nothing to propagate
calculateOptimalShortSize(entryPrice, lpAmount, lowerRange, upperRange) ==
    IF calculateLiquidity(entryPrice, lpAmount, lowerRange, upperRange).threw
    THEN [threw |-> FALSE, value |-> Mul(lpAmount, Fin(1, 4))]
    ELSE [threw |-> FALSE,
          value |-> MathMin(MathMax(optimalShortUnclamped(entryPrice, lpAmount,
                                                          lowerRange, upperRange),
                                    Mul(lpAmount, Fin(1, 5))),
                            Mul(lpAmount, Fin(4, 5)))]

\* calculateMarketBasedShortSizes with the bull and bear multipliers exchanged
calculateMarketBasedShortSizesSwapped(entryPrice, lpAmount, lowerRange, upperRange) ==
    LET normalShort ==
            calculateOptimalShortSize(entryPrice, lpAmount, lowerRange, upperRange).value
        bullShort == Mul(normalShort, Fin(7, 5))
        bearShort == Mul(normalShort, Fin(7, 10))
    IN  [bull   |-> MathMin(MathMax(bullShort, Mul(lpAmount, Fin(1, 10))),
                            Mul(lpAmount, Fin(3, 5))),
         normal |-> normalShort,
         bear   |-> MathMin(MathMax(bearShort, Mul(lpAmount, Fin(3, 10))),
                            Mul(lpAmount, Fin(9, 10)))]

\* calculateMarketBasedShortSizes
calculateMarketBasedShortSizes(entryPrice, lpAmount, lowerRange, upperRange) ==
    LET normal == calculateOptimalShortSize(entryPrice, lpAmount, lowerRange, upperRange)
    IN  IF normal.threw
        THEN [bull   |-> Mul(lpAmount, Fin(1, 5)),
              normal |-> Mul(lpAmount, Fin(1, 4)),
              bear   |-> Mul(lpAmount, Fin(7, 20))]
        ELSE
        LET normalShort == normal.value
            bullShort == Mul(normalShort, Fin(7, 10))
            bearShort == Mul(normalShort, Fin(7, 5))
        IN  [bull   |-> MathMin(MathMax(bullShort, Mul(lpAmount, Fin(1, 10))),
                                Mul(lpAmount, Fin(3, 5))),
             normal |-> normalShort,
             bear   |-> MathMin(MathMax(bearShort, Mul(lpAmount, Fin(3, 10))),
                                Mul(lpAmount, Fin(9, 10)))]

---------------------------------------------------------------------------
(* CalculatorUtils. *)

\* errors.push(msg) when cond holds
pushIf(errors, cond, msg) == IF cond THEN Append(errors, msg) ELSE errors

\* validateInputs
validateInputs(entryPrice, lpAmount, lowerRange, upperRange, shortSize) ==
    LET e1 == pushIf(<< >>, Le(entryPrice, Num(0)), "Entry price must be positive")
        e2 == pushIf(e1, Le(lpAmount, Num(0)), "LP amount must be positive")
        e3 == pushIf(e2, Lt(shortSize, Num(0)), "Short size cannot be negative")
        e4 == pushIf(e3, Ge(lowerRange, entryPrice), "Lower range must be below entry price")
        e5 == pushIf(e4, Le(upperRange, entryPrice), "Upper range must be above entry price")
        e6 == pushIf(e5, Ge(lowerRange, upperRange), "Lower range must be below upper range")
    IN  e6

---------------------------------------------------------------------------
(* TableDataGenerator. *)

\* const ranges = { narrow: 25, medium: 50, wide: 75, extreme: 100 }
ranges == [narrow |-> Num(25), medium |-> Num(50), wide |-> Num(75), extreme |-> Num(100)]

\* const steps = { fine: 2.5, normal: 5, coarse: 10 }
steps == [fine |-> Fin(5, 2), normal |-> Num(5), coarse |-> Num(10)]

\* const maxRange = ranges[range] || 50
maxRangeOf(range) == IF range \in DOMAIN ranges THEN ranges[range] ELSE Num(50)

\* const stepSize = steps[step] || 5
stepSizeOf(step) == IF step \in DOMAIN steps THEN steps[step] ELSE Num(5)

\* the loop test with the upper end left out: i < maxRange
scenarioLoopTestExclusive(i, maxRange) == Lt(i, maxRange)

\* the loop test of generatePriceScenarios: i <= maxRange
scenarioLoopTest(i, maxRange) == Le(i, maxRange)

\* the object pushed by the loop body of generatePriceScenarios
scenarioAt(entryPrice, i) ==
    [price |-> Mul(entryPrice, Add(Num(1), Div(i, Num(100)))),
     changePercent |-> i]

\* const lpFees = lpAmount * (lpFeeApr / 100 / 365) * duration
lpFeesOf(lpAmount, lpFeeApr, duration) ==
    Mul(Mul(lpAmount, Div(Div(lpFeeApr, Num(100)), Num(365))), duration)

\* const shortFundingPnl = shortSize * (shortFundingRate / 100) * duration
shortFundingPnlOf(shortSize, shortFundingRate, duration) ==
    Mul(Mul(shortSize, Div(shortFundingRate, Num(100))), duration)

\* the call of calculateLPPosition made for one scenario
scenarioLPResult(scenario, entryPrice, lpAmount, lowerRange, upperRange) ==
    calculateLPPosition(scenario.price, entryPrice, lpAmount, lowerRange, upperRange)

\* the body of scenarios.forEach after that call: the row pushed for one scenario
tableRow(scenario, lpResult, entryPrice, lpAmount, shortSize, lpFees, shortFundingPnl) ==
    LET shortPnlFromPrice == calculateShortPnL(scenario.price, entryPrice, shortSize)
        totalShortPnl == Add(shortPnlFromPrice, shortFundingPnl)
        lpPnL == Sub(lpResult.totalValue, lpAmount)
        netPnL == Add(Add(lpPnL, totalShortPnl), lpFees)
        returnPct == Mul(Div(netPnL, lpAmount), Num(100))
    IN  [price          |-> scenario.price,
         priceChange    |-> scenario.changePercent,
         tokenAmount    |-> lpResult.tokenAmount,
         usdAmount      |-> lpResult.usdAmount,
         totalValue     |-> lpResult.totalValue,
         lpPnL          |-> lpPnL,
         shortPnL       |-> totalShortPnl,
         netPnL         |-> netPnL,
         returnPct      |-> returnPct,
         isCurrentPrice |-> Lt(MathAbs(scenario.changePercent), Fin(1, 100))]

---------------------------------------------------------------------------
(* The calculator as a state machine: a parameter set is chosen, then one   *)
(* operation of the calculator is applied to it.                           *)

\* const CACHE_NAME
CACHE_NAME == "v3-hedge-calculator-v1.0.3"

\* the cache of the worker's previous version, which activation evicts
OLD_CACHE_NAME == "v3-hedge-calculator-v1.0.2"

CacheNames == {CACHE_NAME, OLD_CACHE_NAME}

NoRequest == [origin |-> "none", url |-> "none", mode |-> "none", inScope |-> FALSE]

NoResponse == [from |-> "none", key |-> "none", ok |-> FALSE]

NoEvent ==
    [kind |-> "none", req |-> NoRequest, offline |-> FALSE, indexCached |-> FALSE,
     handler |-> "none", served |-> NoResponse]

VARIABLES
    inp,    \* the parameter set: entryPrice, lpAmount, lowerRange, upperRange
    op,     \* the operation applied last ("none" before the first)
    arg,    \* the further arguments of that call
    out,    \* what that call returned
    sw,         \* the service worker's lifecycle state
    cacheStore, \* CacheStorage: for each cache name, whether it exists and its keys
    online,     \* whether the network is available
    event       \* the last fetch event and how it was answered

calcVars == <<inp, op, arg, out>>

workerVars == <<sw, cacheStore, online, event>>

vars == <<inp, op, arg, out, sw, cacheStore, online, event>>

\* the service worker before its script has run: no cache, no fetch event yet
WorkerIdle ==
    /\ sw = "parsed"
    /\ cacheStore = [name \in CacheNames |-> [exists |-> FALSE, keys |-> {}]]
    /\ online = TRUE
    /\ event = NoEvent

\* the square of r, as a price
Sq(r) == Num(r * r)

Prices == {Sq(r) : r \in 0..MaxRoot} \cup {Num(-1)}

Deposits == {Num(5000 * i) : i \in 0..MaxDepositSteps}

ShortSizes == {Num(-1), Num(0), Num(2500)}

Liquidities == {Num(-1), Num(0), Fin(3, 2), Num(6000)}

RangeNames == {"narrow", "medium", "wide", "extreme", "other"}

StepNames == {"fine", "normal", "coarse", "other"}

Init ==
    /\ inp \in [entryPrice : Prices, lpAmount : Deposits,
                lowerRange : Prices, upperRange : Prices]
    /\ op = "none"
    /\ arg = << >>
    /\ out = << >>
    /\ WorkerIdle

ValidateInputs ==
    /\ op = "none"
    /\ \E shortSize \in ShortSizes :
        /\ op' = "validateInputs"
        /\ arg' = [shortSize |-> shortSize]
        /\ out' = validateInputs(inp.entryPrice, inp.lpAmount, inp.lowerRange,
                                 inp.upperRange, shortSize)
    /\ UNCHANGED inp
    /\ UNCHANGED workerVars

CalculateLiquidity ==
    /\ op = "none"
    /\ op' = "calculateLiquidity"
    /\ arg' = << >>
    /\ out' = calculateLiquidity(inp.entryPrice, inp.lpAmount, inp.lowerRange,
                                 inp.upperRange)
    /\ UNCHANGED inp
    /\ UNCHANGED workerVars

\* the liquidity calculateLiquidity derives from the parameter set, if any
DerivedLiquidity ==
    LET liq == calculateLiquidity(inp.entryPrice, inp.lpAmount, inp.lowerRange,
                                  inp.upperRange)
    IN  IF liq.threw THEN {} ELSE {liq.value}

\* the first decomposition of a position of liquidity L
CalculateTokenDistribution ==
    /\ op = "none"
    /\ \E currentPrice \in Prices, liquidity \in Liquidities \cup DerivedLiquidity :
        /\ op' = "calculateTokenDistribution"
        /\ arg' = [currentPrice |-> currentPrice, liquidity |-> liquidity]
        /\ out' = calculateTokenDistribution(currentPrice, liquidity,
                                             inp.lowerRange, inp.upperRange)
    /\ UNCHANGED inp
    /\ UNCHANGED workerVars

\* the same position decomposed again, at another observation price
ObservePrice ==
    /\ op = "calculateTokenDistribution"
    /\ \E currentPrice \in Prices :
        /\ arg' = [arg EXCEPT !.currentPrice = currentPrice]
        /\ out' = calculateTokenDistribution(currentPrice, arg.liquidity,
                                             inp.lowerRange, inp.upperRange)
    /\ UNCHANGED <<inp, op>>
    /\ UNCHANGED workerVars

CalculateLPPosition ==
    /\ op = "none"
    /\ \E currentPrice \in Prices :
        /\ op' = "calculateLPPosition"
        /\ arg' = [currentPrice |-> currentPrice]
        /\ out' = calculateLPPosition(currentPrice, inp.entryPrice, inp.lpAmount,
                                      inp.lowerRange, inp.upperRange)
    /\ UNCHANGED inp
    /\ UNCHANGED workerVars

CalculateOptimalShortSize ==
    /\ op = "none"
    /\ op' = "calculateOptimalShortSize"
    /\ arg' = << >>
    /\ out' = calculateOptimalShortSize(inp.entryPrice, inp.lpAmount, inp.lowerRange,
                                        inp.upperRange)
    /\ UNCHANGED inp
    /\ UNCHANGED workerVars

CalculateMarketBasedShortSizes ==
    /\ op = "none"
    /\ op' = "calculateMarketBasedShortSizes"
    /\ arg' = << >>
    /\ out' = calculateMarketBasedShortSizes(inp.entryPrice, inp.lpAmount,
                                             inp.lowerRange, inp.upperRange)
    /\ UNCHANGED inp
    /\ UNCHANGED workerVars

Next ==
    \/ ValidateInputs
    \/ CalculateLiquidity
    \/ CalculateTokenDistribution
    \/ ObservePrice
    \/ CalculateLPPosition
    \/ CalculateOptimalShortSize
    \/ CalculateMarketBasedShortSizes

Spec == Init /\ [][Next]_vars

---------------------------------------------------------------------------
(* The scenario table: a parameter set is chosen, then generateTableData   *)
(* builds the table for one range class and one step class, one iteration  *)
(* of its loops at a time.  While it runs, out holds                       *)
(*     pc         "scenarios" in the loop of generatePriceScenarios,       *)
(*                "rows" in scenarios.forEach, "done" once it has returned *)
(*     i          the loop variable of generatePriceScenarios              *)
(*     scenarios  the scenarios pushed so far                              *)
(*     results    the rows pushed so far                                   *)
(*     lpResults  what the calls of calculateLPPosition returned, in order *)

\* the parameter sets the tables are built for: the entry price lies below the
\* range, on its lower bound, inside it or on its upper bound
TableEntries == {Sq(r) : r \in 1..MaxRoot}

TableLowers == {Sq(1), Sq(2)}

TableUppers == {Sq(MaxRoot)}

TableDeposits == Deposits \ {Num(0)}

\* the short size the tables are built with
TableShortSize == Num(2500)

TableInit ==
    /\ inp \in [entryPrice : TableEntries, lpAmount : TableDeposits,
                lowerRange : TableLowers, upperRange : TableUppers]
    /\ op = "none"
    /\ arg = << >>
    /\ out = << >>
    /\ WorkerIdle

\* the call; lpFeeApr, duration and shortFundingRate take their default, 0
GenerateTableData ==
    /\ op = "none"
    /\ \E priceRange \in RangeNames, stepSize \in StepNames :
        /\ op' = "generateTableData"
        /\ arg' = [shortSize |-> TableShortSize, priceRange |-> priceRange,
                   stepSize |-> stepSize, lpFeeApr |-> Num(0), duration |-> Num(0),
                   shortFundingRate |-> Num(0)]
        /\ out' = [pc |-> "scenarios", i |-> Neg(maxRangeOf(priceRange)),
                   scenarios |-> << >>, results |-> << >>, lpResults |-> << >>]
    /\ UNCHANGED inp
    /\ UNCHANGED workerVars

\* one iteration of the loop of generatePriceScenarios, or its exit
ScenarioStep ==
    /\ op = "generateTableData"
    /\ out.pc = "scenarios"
    /\ out' = IF scenarioLoopTest(out.i, maxRangeOf(arg.priceRange))
              THEN [out EXCEPT !.scenarios = Append(@, scenarioAt(inp.entryPrice, out.i)),
                               !.i = Add(@, stepSizeOf(arg.stepSize))]
              ELSE [out EXCEPT !.pc = "rows"]
    /\ UNCHANGED <<inp, op, arg>>
    /\ UNCHANGED workerVars

\* one iteration of scenarios.forEach, or the return of results
RowStep ==
    /\ op = "generateTableData"
    /\ out.pc = "rows"
    /\ IF Len(out.results) < Len(out.scenarios)
       THEN \E scenario \in {out.scenarios[Len(out.results) + 1]} :
            \E lpResult \in {scenarioLPResult(scenario, inp.entryPrice, inp.lpAmount,
                                               inp.lowerRange, inp.upperRange)} :
                out' = [out EXCEPT
                          !.lpResults = Append(@, lpResult),
                          !.results = Append(@,
                              tableRow(scenario, lpResult, inp.entryPrice, inp.lpAmount,
                                       arg.shortSize,
                                       lpFeesOf(inp.lpAmount, arg.lpFeeApr, arg.duration),
                                       shortFundingPnlOf(arg.shortSize,
                                           arg.shortFundingRate, arg.duration)))]
       ELSE out' = [out EXCEPT !.pc = "done"]
    /\ UNCHANGED <<inp, op, arg>>
    /\ UNCHANGED workerVars

TableNext ==
    \/ GenerateTableData
    \/ ScenarioStep
    \/ RowStep

TableSpec == TableInit /\ [][TableNext]_vars

---------------------------------------------------------------------------
(* The service worker (src/sw.js). *)

\* const urlsToCache
urlsToCache == {"./", "./index.html", "./calculator.js", "./manifest.json"}

\* the URLs requested: the cached assets and one asset that is not precached
Urls == urlsToCache \cup {"./styles.css"}

Requests ==
    [origin : {"self", "other"}, url : Urls, mode : {"navigate", "no-cors"},
     inScope : BOOLEAN]

\* what the network does with a request: no network, a 200 or a 404
NetworkOutcomes == {"offline", "ok", "notfound"}

\* SCOPE_PATH is read by the fetch listener and declared nowhere in the worker's
\* script: evaluating it throws a ReferenceError
ScopePathDeclared == FALSE

\* caches.open(name): creates the cache when it does not exist
cacheOpen(store, name) == [store EXCEPT ![name].exists = TRUE]

\* (await caches.open(name)).put(url, response)
cachePut(store, name, url) ==
    [store EXCEPT ![name] = [exists |-> TRUE, keys |-> @.keys \cup {url}]]

\* (await caches.open(name)).match(url), as a boolean
cacheMatch(store, name, url) == store[name].exists /\ url \in store[name].keys

\* caches.match(url), over every cache, as a boolean
cachesMatch(store, url) == \E name \in CacheNames : cacheMatch(store, name, url)

\* fetch(req): rejects when the network is unavailable
networkFetch(req, net) ==
    IF net = "offline"
    THEN [from |-> "error", key |-> req.url, ok |-> FALSE]
    ELSE [from |-> "network", key |-> req.url, ok |-> (net = "ok")]

cachedResponse(url) == [from |-> "cache", key |-> url, ok |-> TRUE]

\* the async function given to respondWith for a navigation request
navigateResponse(req, store, net) ==
    IF net # "offline"
    THEN [handler |-> "respondWith",
          served  |-> networkFetch(req, net),
          store   |-> IF net = "ok" THEN cachePut(store, CACHE_NAME, "./index.html")
                                    ELSE store]
    ELSE LET opened == cacheOpen(store, CACHE_NAME)
         IN  [handler |-> "respondWith",
              served  |-> IF cacheMatch(opened, CACHE_NAME, "./index.html")
                          THEN cachedResponse("./index.html")
                          ELSE IF cachesMatch(opened, req.url)
                          THEN cachedResponse(req.url)
                          ELSE networkFetch(req, net),
              store   |-> opened]

\* the promise given to respondWith for any other request
assetResponse(req, store, net) ==
    IF cachesMatch(store, req.url)
    THEN [handler |-> "respondWith", served |-> cachedResponse(req.url), store |-> store]
    ELSE [handler |-> "respondWith",
          served  |-> networkFetch(req, net),
          store   |-> IF net = "ok" THEN cachePut(store, CACHE_NAME, req.url) ELSE store]

\* the fetch listener: "default" when it returns without respondWith, "threw"
\* when it throws before respondWith, else the response it gives
fetchListener(req, store, net) ==
    IF req.origin # "self"
    THEN [handler |-> "default", served |-> NoResponse, store |-> store]
    ELSE IF ~ScopePathDeclared
    THEN [handler |-> "threw", served |-> NoResponse, store |-> store]
    ELSE IF ~req.inScope
    THEN [handler |-> "default", served |-> NoResponse, store |-> store]
    ELSE IF req.mode = "navigate"
    THEN navigateResponse(req, store, net)
    ELSE assetResponse(req, store, net)

\* a cache left by the previous version of the worker, or none
WorkerInit ==
    /\ inp = << >>
    /\ op = "none"
    /\ arg = << >>
    /\ out = << >>
    /\ sw = "parsed"
    /\ \E old \in {{}, {"./index.html"}, urlsToCache} :
        cacheStore = [name \in CacheNames |->
                        IF name = OLD_CACHE_NAME /\ old # {}
                        THEN [exists |-> TRUE, keys |-> old]
                        ELSE [exists |-> FALSE, keys |-> {}]]
    /\ online \in BOOLEAN
    /\ event = NoEvent

\* the install listener: cache.addAll(urlsToCache) stores all or nothing
Install ==
    /\ sw = "parsed"
    /\ \E status \in {"ok", "notfound"} :
        IF online /\ status = "ok"
        THEN /\ sw' = "installed"
             /\ cacheStore' = [cacheStore EXCEPT ![CACHE_NAME] =
                                  [exists |-> TRUE, keys |-> @.keys \cup urlsToCache]]
        ELSE /\ sw' = "redundant"
             /\ cacheStore' = cacheOpen(cacheStore, CACHE_NAME)
    /\ UNCHANGED <<online, event>>
    /\ UNCHANGED calcVars

\* the activate listener: every cache but CACHE_NAME is deleted
Activate ==
    /\ sw = "installed"
    /\ sw' = "activated"
    /\ cacheStore' = [name \in CacheNames |->
                        IF name # CACHE_NAME
                        THEN [exists |-> FALSE, keys |-> {}]
                        ELSE cacheStore[name]]
    /\ UNCHANGED <<online, event>>
    /\ UNCHANGED calcVars

\* the network comes or goes
ToggleNetwork ==
    /\ online' = ~online
    /\ UNCHANGED <<sw, cacheStore, event>>
    /\ UNCHANGED calcVars

\* a fetch event of a controlled page, and the response the page gets: the
\* listener's, or the browser's own fetch when the listener gave none
Fetch ==
    /\ sw = "activated"
    /\ \E req \in Requests, status \in {"ok", "notfound"} :
        LET net == IF online THEN status ELSE "offline"
            h   == fetchListener(req, cacheStore, net)
        IN  /\ cacheStore' = h.store
            /\ event' = [kind        |-> "fetch",
                         req         |-> req,
                         offline     |-> ~online,
                         indexCached |-> cacheMatch(cacheStore, CACHE_NAME, "./index.html"),
                         handler     |-> h.handler,
                         served      |-> IF h.handler = "respondWith"
                                         THEN h.served
                                         ELSE networkFetch(req, net)]
    /\ UNCHANGED <<sw, online>>
    /\ UNCHANGED calcVars

WorkerNext ==
    \/ Install
    \/ Activate
    \/ ToggleNetwork
    \/ Fetch

WorkerSpec == WorkerInit /\ [][WorkerNext]_vars

---------------------------------------------------------------------------
(* Claims. *)

\* the elements of a sequence
Range(seq) == {seq[i] : i \in DOMAIN seq}

\* the internal failure of the engine: calculateLiquidity throws on the parameter set
LiquidityThrows ==
    calculateLiquidity(inp.entryPrice, inp.lpAmount, inp.lowerRange, inp.upperRange).threw

\* C1: whenever calculateLPPosition hits an internal failure (the entry price is
\* outside the range) it returns the safe default: tokenAmount, usdAmount,
\* totalValue, impermanentLoss and liquidity are 0 and hodlValue is the deposit
\* amount that was passed in, whatever that amount is.
C1_FailureGivesSafeDefault ==
    (op = "calculateLPPosition" /\ LiquidityThrows) =>
        /\ out.tokenAmount = Num(0)
        /\ out.usdAmount = Num(0)
        /\ out.totalValue = Num(0)
        /\ out.impermanentLoss = Num(0)
        /\ out.liquidity = Num(0)
        /\ out.hodlValue = inp.lpAmount

\* C2: whenever hedge sizing hits an internal failure (the entry price is outside
\* the range) calculateMarketBasedShortSizes returns exactly the fallback
\* fractions of the deposit: bull 0.2, normal 0.25, bear 0.35.
C2_FailureGivesFallbackFractions ==
    (op = "calculateMarketBasedShortSizes" /\ LiquidityThrows) =>
        /\ out.bull = Mul(inp.lpAmount, Fin(1, 5))
        /\ out.normal = Mul(inp.lpAmount, Fin(1, 4))
        /\ out.bear = Mul(inp.lpAmount, Fin(7, 20))

\* the domain constraints on a parameter set and a short size
NoConstraintViolated(shortSize) ==
    /\ Gt(inp.entryPrice, Num(0))
    /\ Gt(inp.lowerRange, Num(0))
    /\ Gt(inp.upperRange, Num(0))
    /\ Gt(inp.lpAmount, Num(0))
    /\ Ge(shortSize, Num(0))
    /\ Lt(inp.lowerRange, inp.entryPrice)
    /\ Gt(inp.upperRange, inp.entryPrice)
    /\ Lt(inp.lowerRange, inp.upperRange)

\* C3: the list validateInputs returns holds a message for each domain constraint
\* the input violates (a non-positive entry, lower or upper price, a non-positive
\* deposit, a negative short size, lowerRange >= entryPrice, upperRange <=
\* entryPrice, lowerRange >= upperRange), and is empty only when none is violated.
C3_EveryViolationReported ==
    op = "validateInputs" =>
        /\ Le(inp.entryPrice, Num(0)) => "Entry price must be positive" \in Range(out)
        /\ Le(inp.lpAmount, Num(0)) => "LP amount must be positive" \in Range(out)
        /\ Lt(arg.shortSize, Num(0)) => "Short size cannot be negative" \in Range(out)
        /\ Ge(inp.lowerRange, inp.entryPrice) =>
               "Lower range must be below entry price" \in Range(out)
        /\ Le(inp.upperRange, inp.entryPrice) =>
               "Upper range must be above entry price" \in Range(out)
        /\ Ge(inp.lowerRange, inp.upperRange) =>
               "Lower range must be below upper range" \in Range(out)
        /\ (Le(inp.lowerRange, Num(0)) \/ Le(inp.upperRange, Num(0))) => out # << >>
        /\ out = << >> => NoConstraintViolated(arg.shortSize)

\* C4: calculateLiquidity never returns a liquidity computed from a non-positive
\* denominator 2*sqrt(entryPrice) - entryPrice/sqrt(upperRange) - sqrt(lowerRange):
\* it reports an error instead, also when the range check passes.
C4_NoLiquidityFromNonPositiveDenominator ==
    (op = "calculateLiquidity"
        /\ Le(liquidityDenominator(inp.entryPrice, inp.lowerRange, inp.upperRange), Num(0)))
    => out.threw

\* the parameter set is a valid position: positive bounds, lower < entry < upper
ValidPosition ==
    /\ Gt(inp.lowerRange, Num(0))
    /\ Lt(inp.lowerRange, inp.entryPrice)
    /\ Lt(inp.entryPrice, inp.upperRange)

\* C5: for an entry price inside the range, every call of calculateLPPosition
\* that generateTableData makes returns the same liquidity, the one derived from
\* the entry parameters, whatever the scenario price; that one L gives both the
\* entry decomposition and the current decomposition; so every row of the table
\* is computed with the same L and the same initial token/cash split.
C5_LiquidityFixedAcrossRows ==
    (op = "generateTableData"
        /\ ~entryOutOfRange(inp.entryPrice, inp.lowerRange, inp.upperRange)) =>
    LET L == calculateLiquidity(inp.entryPrice, inp.lpAmount, inp.lowerRange,
                                inp.upperRange).value
        entryDist == calculateTokenDistribution(inp.entryPrice, L, inp.lowerRange,
                                                inp.upperRange)
    IN  \A i \in DOMAIN out.lpResults :
            LET r == out.lpResults[i]
                currentDist == calculateTokenDistribution(out.scenarios[i].price, L,
                                   inp.lowerRange, inp.upperRange)
            IN  /\ r.liquidity = L
                /\ r.liquidity = out.lpResults[1].liquidity
                /\ r.initialTokenAmount = entryDist.tokenAmount
                /\ r.initialUsdAmount = entryDist.usdAmount
                /\ r.tokenAmount = currentDist.tokenAmount
                /\ r.usdAmount = currentDist.usdAmount
                /\ out.results[i].tokenAmount = currentDist.tokenAmount
                /\ out.results[i].usdAmount = currentDist.usdAmount
                /\ out.results[i].totalValue = currentDist.totalValue

\* a table of a valid position whose rows lie below, inside and above the range
C5_Witness ==
    /\ op = "generateTableData"
    /\ out.pc = "done"
    /\ ValidPosition
    /\ IsFinite(out.lpResults[1].liquidity)
    /\ Gt(out.lpResults[1].liquidity, Num(0))
    /\ \E i, j, k \in DOMAIN out.scenarios :
        /\ Lt(out.scenarios[i].price, inp.lowerRange)
        /\ Gt(out.scenarios[j].price, inp.lowerRange)
        /\ Lt(out.scenarios[j].price, inp.upperRange)
        /\ out.scenarios[j].price # inp.entryPrice
        /\ Gt(out.scenarios[k].price, inp.upperRange)

\* C6: generateTableData produces one row per k = -maxRange, -maxRange +
\* stepSize, ..., +maxRange inclusive, in ascending order of k, each with price =
\* entryPrice * (1 + k/100); for maxRange 50 and stepSize 5 these are exactly 21
\* rows, symmetric around k = 0, and the k = 0 row is the one flagged
\* isCurrentPrice.
C6_OneRowPerStep ==
    (op = "generateTableData" /\ out.pc = "done") =>
    LET maxRange == maxRangeOf(arg.priceRange)
        stepSize == stepSizeOf(arg.stepSize)
        count == Div(Mul(Num(2), maxRange), stepSize)
        n == Len(out.results)
        kOf(i) == Add(Neg(maxRange), Mul(Num(i - 1), stepSize))
    IN  /\ count.d = 1
        /\ n = count.n + 1
        /\ \A i \in 1..n :
            /\ out.results[i].priceChange = kOf(i)
            /\ out.results[i].price =
                   Mul(inp.entryPrice, Add(Num(1), Div(kOf(i), Num(100))))
        /\ \A i \in 1..(n - 1) :
               Lt(out.results[i].priceChange, out.results[i + 1].priceChange)
        /\ out.results[1].priceChange = Neg(maxRange)
        /\ out.results[n].priceChange = maxRange
        /\ (maxRange = Num(50) /\ stepSize = Num(5)) =>
            /\ n = 21
            /\ \A i \in 1..n :
                /\ out.results[i].priceChange = Neg(out.results[n + 1 - i].priceChange)
                /\ out.results[i].isCurrentPrice <=> (i = 11)
            /\ out.results[11].priceChange = Num(0)

\* the table for range=medium, step=normal
C6_Witness ==
    /\ op = "generateTableData"
    /\ out.pc = "done"
    /\ arg.priceRange = "medium"
    /\ arg.stepSize = "normal"
    /\ Len(out.results) = 21
    /\ out.results[11].isCurrentPrice

\* the unclamped normal size lies strictly inside its clamp band
NormalInsideBand ==
    LET unclamped == optimalShortUnclamped(inp.entryPrice, inp.lpAmount,
                                           inp.lowerRange, inp.upperRange)
    IN  /\ Gt(unclamped, Mul(inp.lpAmount, Fin(1, 5)))
        /\ Lt(unclamped, Mul(inp.lpAmount, Fin(4, 5)))

\* C7: for valid hedge-sizing inputs (a positive deposit, the entry price inside
\* the range) whose unclamped normal size lies strictly inside (0.2, 0.8) of the
\* deposit, calculateMarketBasedShortSizes returns bull <= normal <= bear with
\* bull in [0.1, 0.6], normal in [0.2, 0.8] and bear in [0.3, 0.9] of the deposit.
C7_HedgeSizesOrdered ==
    (op = "calculateMarketBasedShortSizes"
        /\ Gt(inp.lpAmount, Num(0))
        /\ Gt(inp.lowerRange, Num(0))
        /\ ~LiquidityThrows
        /\ NormalInsideBand) =>
        /\ Le(out.bull, out.normal)
        /\ Le(out.normal, out.bear)
        /\ Ge(out.bull, Mul(inp.lpAmount, Fin(1, 10)))
        /\ Le(out.bull, Mul(inp.lpAmount, Fin(3, 5)))
        /\ Ge(out.normal, Mul(inp.lpAmount, Fin(1, 5)))
        /\ Le(out.normal, Mul(inp.lpAmount, Fin(4, 5)))
        /\ Ge(out.bear, Mul(inp.lpAmount, Fin(3, 10)))
        /\ Le(out.bear, Mul(inp.lpAmount, Fin(9, 10)))

\* hedge sizes of a valid position with the normal size inside its band
C7_Witness ==
    /\ op = "calculateMarketBasedShortSizes"
    /\ Gt(inp.lpAmount, Num(0))
    /\ ValidPosition
    /\ NormalInsideBand
    /\ Lt(out.bull, out.normal)
    /\ Lt(out.normal, out.bear)

\* the preconditions of the decomposition: price > 0, L >= 0, lower < upper
DecompositionDomain(currentPrice, liquidity) ==
    /\ Gt(currentPrice, Num(0))
    /\ Ge(liquidity, Num(0))
    /\ Ge(inp.lowerRange, Num(0))
    /\ Lt(inp.lowerRange, inp.upperRange)

\* the three regimes of the decomposition, on the call that out answers
C8_Regimes ==
    (op = "calculateTokenDistribution"
        /\ DecompositionDomain(arg.currentPrice, arg.liquidity)) =>
    LET price  == arg.currentPrice
        L      == arg.liquidity
        sqrtPa == MathSqrt(inp.lowerRange)
        sqrtPb == MathSqrt(inp.upperRange)
        sqrtP  == MathSqrt(price)
        below  == Le(price, inp.lowerRange)
        above  == Ge(price, inp.upperRange)
    IN  /\ ~(below /\ above)
        /\ below =>
            /\ out.usdAmount = Num(0)
            /\ out.tokenAmount = Mul(L, Sub(Div(Num(1), sqrtPa), Div(Num(1), sqrtPb)))
        /\ above =>
            /\ out.tokenAmount = Num(0)
            /\ out.usdAmount = Mul(L, Sub(sqrtPb, sqrtPa))
            /\ out.totalValue = out.usdAmount
        /\ (~below /\ ~above) =>
            /\ out.tokenAmount = Mul(L, Sub(Div(Num(1), sqrtP), Div(Num(1), sqrtPb)))
            /\ out.usdAmount = Mul(L, Sub(sqrtP, sqrtPa))
        /\ Ge(out.tokenAmount, Num(0))
        /\ Ge(out.usdAmount, Num(0))
        /\ out.totalValue = Add(Mul(out.tokenAmount, price), out.usdAmount)

\* a move of the observation price that stays below the range, or stays above it,
\* changes neither amount
C8_PriceIndependent ==
    (/\ op = "calculateTokenDistribution"
     /\ op' = "calculateTokenDistribution"
     /\ DecompositionDomain(arg.currentPrice, arg.liquidity)
     /\ Gt(arg'.currentPrice, Num(0))
     /\ \/ Le(arg.currentPrice, inp.lowerRange) /\ Le(arg'.currentPrice, inp.lowerRange)
        \/ Ge(arg.currentPrice, inp.upperRange) /\ Ge(arg'.currentPrice, inp.upperRange))
    => (out'.tokenAmount = out.tokenAmount /\ out'.usdAmount = out.usdAmount)

\* C8: for price > 0, L >= 0 and lowerRange < upperRange,
\* calculateTokenDistribution puts the price in exactly one of three regimes: at
\* or below the range the cash amount is 0 and the token amount is
\* L*(1/sqrtPa - 1/sqrtPb) whatever the price; at or above the range the token
\* amount is 0 and the cash amount is L*(sqrtPb - sqrtPa) whatever the price, the
\* full position value; otherwise both come from the in-range formula; in all
\* three both amounts are >= 0 and totalValue = tokenAmount*price + cashAmount.
C8_ThreeRegimes == []C8_Regimes /\ [][C8_PriceIndependent]_vars

\* a position with L > 0 observed at the upper boundary: all cash
C8_Witness ==
    /\ op = "calculateTokenDistribution"
    /\ DecompositionDomain(arg.currentPrice, arg.liquidity)
    /\ Gt(inp.lowerRange, Num(0))
    /\ Gt(arg.liquidity, Num(0))
    /\ arg.currentPrice = inp.upperRange
    /\ Gt(out.usdAmount, Num(0))
    /\ out.tokenAmount = Num(0)

\* C9: for a valid range and an entry price strictly inside it, the liquidity
\* derived by calculateLiquidity, decomposed by calculateTokenDistribution at the
\* entry price, gives totalValue = depositAmount; and calculateLPPosition at
\* currentPrice = entryPrice reports totalValue = depositAmount and
\* impermanentLoss = 0.
C9_RoundTrip ==
    /\ (op = "calculateTokenDistribution"
            /\ ValidPosition
            /\ arg.currentPrice = inp.entryPrice
            /\ arg.liquidity \in DerivedLiquidity)
       => out.totalValue = inp.lpAmount
    /\ (op = "calculateLPPosition"
            /\ ValidPosition
            /\ arg.currentPrice = inp.entryPrice)
       => (out.totalValue = inp.lpAmount /\ out.impermanentLoss = Num(0))

\* the position of a positive deposit, observed at its entry price
C9_Witness ==
    /\ op = "calculateLPPosition"
    /\ ValidPosition
    /\ arg.currentPrice = inp.entryPrice
    /\ Gt(inp.lpAmount, Num(0))
    /\ Gt(out.liquidity, Num(0))
    /\ Gt(out.tokenAmount, Num(0))
    /\ Gt(out.usdAmount, Num(0))

\* C10: a same-origin navigation request whose network fetch fails is answered by
\* the fetch listener with the cached shell page './index.html' of the current
\* cache whenever that entry is cached.
C10_OfflineNavigationGetsShell ==
    (event.kind = "fetch"
        /\ event.req.origin = "self"
        /\ event.req.inScope
        /\ event.req.mode = "navigate"
        /\ event.offline
        /\ event.indexCached)
    => (event.handler = "respondWith" /\ event.served = cachedResponse("./index.html"))

\* the rows of the returned table that are flagged isCurrentPrice
CurrentPriceRows == {i \in DOMAIN out.results : out.results[i].isCurrentPrice}

\* C11: for every range class and step class, unknown names included, the table
\* returned by generateTableData has exactly one row flagged isCurrentPrice, and
\* that row has priceChange = 0 and price = entryPrice.
C11_ExactlyOneCurrentPriceRow ==
    (op = "generateTableData" /\ out.pc = "done") =>
    /\ Cardinality(CurrentPriceRows) = 1
    /\ \A i \in CurrentPriceRows :
        /\ out.results[i].priceChange = Num(0)
        /\ out.results[i].price = inp.entryPrice

\* C12: for an entry price > 0 and every range class and step class, every
\* scenario price that generateTableData hands to calculateLPPosition is > 0, so
\* no row is computed from a zero price.
C12_EveryScenarioPricePositive ==
    (op = "generateTableData" /\ Gt(inp.entryPrice, Num(0))) =>
    \A i \in DOMAIN out.lpResults :
        /\ Gt(out.scenarios[i].price, Num(0))
        /\ Gt(out.results[i].price, Num(0))

=============================================================================
